---------------------------- MODULE Spec2Model ----------------------------
(***************************************************************************)
(* TODO service: route layer -> TodoService -> InMemoryTodoStorage.        *)
(*                                                                         *)
(* Two specifications over the same state:                                 *)
(*   Spec      requests handled one at a time, each handler as one step    *)
(*             (the event loop runs a handler's storage call without       *)
(*             yielding: there is no await inside a critical section);     *)
(*   SpecConc  several threads calling the storage object, each storage    *)
(*             method split at the statements of its critical section.     *)
(***************************************************************************)
EXTENDS Integers, Sequences, FiniteSets, TLC

(***************************************************************************)
(* Bounds of the model.                                                    *)
(***************************************************************************)
\* create is no longer offered once the id counter has passed MaxId
MaxId == 2
\* the clock stops advancing at MaxClock
MaxClock == 1

\* threads of SpecConc
Threads == {"t1", "t2"}
NoThread == "none"

\* titles the requests draw from: empty, whitespace only, plain, padded
TitleSamples == { <<>>, <<" ">>, <<"a">>, <<" ", "b", " ">> }

(***************************************************************************)
(* models.py                                                               *)
(***************************************************************************)
\* Field(min_length=1, max_length=500) of TodoBase.title and TodoUpdate.title
MinTitleLength == 1
MaxTitleLength == 500

\* an optional field of a request body: left out ("unset", default None),
\* given as null, or given a value
TUnset == [state |-> "unset", val |-> <<>>]
TNull == [state |-> "null", val |-> <<>>]
TVal(s) == [state |-> "value", val |-> s]
CUnset == [state |-> "unset", val |-> FALSE]
CNull == [state |-> "null", val |-> FALSE]
CVal(b) == [state |-> "value", val |-> b]

\* `field is None`
IsNone(f) == f.state # "value"

\* the str constraint of title
TitleLengthOK(s) == Len(s) >= MinTitleLength /\ Len(s) <= MaxTitleLength

\* TodoCreate(**body): title is required and a constrained str
TodoCreateValid(body) ==
    body.title.state = "value" /\ TitleLengthOK(body.title.val)

\* TodoUpdate(**body): both fields Optional, title constrained when a str
TodoUpdateValid(body) ==
    body.title.state = "value" => TitleLengthOK(body.title.val)

\* Todo(id=, title=, completed=, created_at=): title a constrained str,
\* completed a bool; None is accepted for neither
TodoValid(titleField, completedField) ==
    /\ titleField.state = "value"
    /\ TitleLengthOK(titleField.val)
    /\ completedField.state = "value"

\* the absent Todo (Python's None where a Todo is expected)
NoTodo == [id |-> 0, title |-> <<>>, completed |-> FALSE, created_at |-> 0]

(***************************************************************************)
(* exceptions.py, and the exceptions of the libraries                      *)
(***************************************************************************)
NoExc == "none"
ValidationError == "ValidationError"
TodoNotFoundError == "TodoNotFoundError"
StorageError == "StorageError"
\* pydantic_core.ValidationError, raised by a model's constructor
PydanticValidationError == "pydantic.ValidationError"

\* TodoAppException and its subclasses
TodoAppExceptions == {ValidationError, TodoNotFoundError, StorageError}
Exceptions == TodoAppExceptions \cup {PydanticValidationError}

(***************************************************************************)
(* str.strip()                                                             *)
(***************************************************************************)
Whitespace == {" ", "\t", "\n", "\r"}

RECURSIVE lstrip(_)
lstrip(s) ==
    IF s # <<>> /\ Head(s) \in Whitespace THEN lstrip(Tail(s)) ELSE s

RECURSIVE rstrip(_)
rstrip(s) ==
    IF s # <<>> /\ s[Len(s)] \in Whitespace
    THEN rstrip(SubSeq(s, 1, Len(s) - 1))
    ELSE s

strip(s) == rstrip(lstrip(s))

(***************************************************************************)
(* The dict InMemoryTodoStorage._todos: entries [key, val] in insertion    *)
(* order, as a Python dict keeps them.                                     *)
(***************************************************************************)
DictKeys(d) == {d[i].key : i \in 1..Len(d)}

DictHas(d, k) == k \in DictKeys(d)

DictIndex(d, k) == CHOOSE i \in 1..Len(d) : d[i].key = k

\* d[k]
DictGet(d, k) == d[DictIndex(d, k)].val

\* d.get(k): None when k is not a key
DictGetOrNone(d, k) == IF DictHas(d, k) THEN DictGet(d, k) ELSE NoTodo

\* d[k] = v: an existing key keeps its place, a new key goes last
DictSet(d, k, v) ==
    IF DictHas(d, k)
    THEN [d EXCEPT ![DictIndex(d, k)] = [key |-> k, val |-> v]]
    ELSE Append(d, [key |-> k, val |-> v])

\* del d[k]
DictDel(d, k) == SelectSeq(d, LAMBDA e : e.key # k)

\* list(d.values())
DictValues(d) == [i \in 1..Len(d) |-> d[i].val]

(***************************************************************************)
(* sorted(todos, key=lambda t: t.created_at, reverse=True): a stable sort, *)
(* elements of equal key keep the order they came in.                      *)
(***************************************************************************)
RECURSIVE InsertDesc(_, _)
InsertDesc(out, x) ==
    IF out = <<>> THEN <<x>>
    ELSE IF Head(out).created_at < x.created_at THEN <<x>> \o out
    ELSE <<Head(out)>> \o InsertDesc(Tail(out), x)

RECURSIVE SortedDesc(_)
SortedDesc(xs) ==
    IF xs = <<>> THEN <<>>
    ELSE InsertDesc(SortedDesc(SubSeq(xs, 1, Len(xs) - 1)), xs[Len(xs)])

(***************************************************************************)
(* storage.py: InMemoryTodoStorage, each method as the whole of its        *)
(* critical section.  A method takes the dict and the id counter and       *)
(* gives what it returns or raises, and the dict and the counter it leaves.*)
(***************************************************************************)
\* TodoStats where there is none
NoStats == [total |-> 0, completed |-> 0, pending |-> 0]

Res(exc, todo, count, list, d, nid) ==
    [exc |-> exc, todo |-> todo, count |-> count, list |-> list,
     stats |-> NoStats, todos |-> d, next_id |-> nid]

Raise(exc, d, nid) == Res(exc, NoTodo, 0, <<>>, d, nid)

\* faulty variant, for sensitivity of the properties: the values are returned as the dict
\* holds them
Storage_get_all_todos_unsorted(d, nid) ==
    Res(NoExc, NoTodo, 0, DictValues(d), d, nid)

Storage_get_all_todos(d, nid) ==
    Res(NoExc, NoTodo, 0, SortedDesc(DictValues(d)), d, nid)

\* faulty variant, for sensitivity of the properties: the id is taken for a position
Storage_get_todo_by_id_by_position(d, nid, todo_id) ==
    Res(NoExc, IF todo_id \in 1..Len(d) THEN d[todo_id].val ELSE NoTodo,
        0, <<>>, d, nid)

Storage_get_todo_by_id(d, nid, todo_id) ==
    Res(NoExc, DictGetOrNone(d, todo_id), 0, <<>>, d, nid)

\* the Todo that create_todo builds
NewTodo(todo_id, title, t) ==
    [id |-> todo_id, title |-> title, completed |-> FALSE, created_at |-> t]

Storage_create_todo(d, nid, title, t) ==
    LET todo_id == nid
        bumped == nid + 1
    IN  IF ~TodoValid(TVal(title), CVal(FALSE))
        THEN Raise(PydanticValidationError, d, bumped)
        ELSE Res(NoExc, NewTodo(todo_id, title, t), 0, <<>>,
                 DictSet(d, todo_id, NewTodo(todo_id, title, t)), bumped)

\* update_dict.get('title', current_todo.title) and
\* update_dict.get('completed', current_todo.completed), where update_dict
\* is model_dump(exclude_unset=True): a field given as null is in it
PatchedTitle(cur, patch) ==
    IF patch.title.state = "unset" THEN TVal(cur.title) ELSE patch.title

\* faulty variant, for sensitivity of the properties: update_dict.get('completed', False)
PatchedCompleted_default(cur, patch) ==
    IF patch.completed.state = "unset" THEN CVal(FALSE) ELSE patch.completed

PatchedCompleted(cur, patch) ==
    IF patch.completed.state = "unset" THEN CVal(cur.completed)
    ELSE patch.completed

\* faulty variant, for sensitivity of the properties: created_at is read from the clock
\* anew, a later reading
UpdatedTodo_restamped(cur, patch) ==
    [id |-> cur.id,
     title |-> PatchedTitle(cur, patch).val,
     completed |-> PatchedCompleted(cur, patch).val,
     created_at |-> cur.created_at + 1]

\* the Todo that update_todo builds from the current one
UpdatedTodo(cur, patch) ==
    [id |-> cur.id,
     title |-> PatchedTitle(cur, patch).val,
     completed |-> PatchedCompleted(cur, patch).val,
     created_at |-> cur.created_at]

Storage_update_todo(d, nid, todo_id, patch) ==
    IF ~DictHas(d, todo_id) THEN Res(NoExc, NoTodo, 0, <<>>, d, nid)
    ELSE LET cur == DictGet(d, todo_id)
         IN  IF ~TodoValid(PatchedTitle(cur, patch), PatchedCompleted(cur, patch))
             THEN Raise(PydanticValidationError, d, nid)
             ELSE Res(NoExc, UpdatedTodo(cur, patch), 0, <<>>,
                      DictSet(d, todo_id, UpdatedTodo(cur, patch)), nid)

\* faulty variant, for sensitivity of the properties: True whether the key is there or not
Storage_delete_todo_always_true(d, nid, todo_id) ==
    Res(NoExc, NoTodo, 1, <<>>, DictDel(d, todo_id), nid)

\* count 1: True, a row was removed; count 0: False
Storage_delete_todo(d, nid, todo_id) ==
    IF DictHas(d, todo_id)
    THEN Res(NoExc, NoTodo, 1, <<>>, DictDel(d, todo_id), nid)
    ELSE Res(NoExc, NoTodo, 0, <<>>, d, nid)

\* the Todo that mark_all_complete puts in the place of an incomplete one
CompletedTodo(todo) ==
    [id |-> todo.id, title |-> todo.title, completed |-> TRUE,
     created_at |-> todo.created_at]

\* faulty variant, for sensitivity of the properties: affected_count grows for every todo
Storage_mark_all_complete_counting_all(d, nid) ==
    Res(NoExc, NoTodo, Len(d), <<>>,
        [i \in 1..Len(d) |->
            [key |-> d[i].key, val |-> CompletedTodo(d[i].val)]],
        nid)

Storage_mark_all_complete(d, nid) ==
    Res(NoExc, NoTodo,
        Cardinality({i \in 1..Len(d) : ~d[i].val.completed}), <<>>,
        [i \in 1..Len(d) |->
            IF d[i].val.completed THEN d[i]
            ELSE [key |-> d[i].key, val |-> CompletedTodo(d[i].val)]],
        nid)

\* completed_ids of delete_completed_todos
CompletedIds(d) == SelectSeq([i \in 1..Len(d) |-> d[i].key],
                             LAMBDA k : DictGet(d, k).completed)

\* faulty variant, for sensitivity of the properties: the loop stops after its first del
Storage_delete_completed_todos_first_only(d, nid) ==
    Res(NoExc, NoTodo, Len(CompletedIds(d)), <<>>,
        IF CompletedIds(d) = <<>> THEN d ELSE DictDel(d, Head(CompletedIds(d))),
        nid)

Storage_delete_completed_todos(d, nid) ==
    Res(NoExc, NoTodo, Len(CompletedIds(d)), <<>>,
        SelectSeq(d, LAMBDA e : ~e.val.completed), nid)

\* faulty variant, for sensitivity of the properties: the count is taken after clear()
Storage_delete_all_todos_count_after(d, nid) ==
    Res(NoExc, NoTodo, 0, <<>>, <<>>, nid)

\* faulty variant, for sensitivity of the properties: delete_all_todos also restarts the id counter
Storage_delete_all_todos_restarting(d, nid) ==
    Res(NoExc, NoTodo, Len(d), <<>>, <<>>, 1)

Storage_delete_all_todos(d, nid) ==
    Res(NoExc, NoTodo, Len(d), <<>>, <<>>, nid)

(***************************************************************************)
(* services.py: TodoService.  A method gives the result of its storage     *)
(* call, or the failure it raises (the store as the storage call left it). *)
(***************************************************************************)
Service_get_all_todos(d, nid) == Storage_get_all_todos(d, nid)

\* faulty variant, for sensitivity of the properties: `if todo_id < 0`
Service_get_todo_by_id_negative_only(d, nid, todo_id) ==
    IF todo_id < 0 THEN Raise(ValidationError, d, nid)
    ELSE LET r == Storage_get_todo_by_id(d, nid, todo_id)
         IN  IF r.exc = NoExc /\ r.todo = NoTodo
             THEN Raise(TodoNotFoundError, r.todos, r.next_id)
             ELSE r

Service_get_todo_by_id(d, nid, todo_id) ==
    IF todo_id <= 0 THEN Raise(ValidationError, d, nid)
    ELSE LET r == Storage_get_todo_by_id(d, nid, todo_id)
         IN  IF r.exc = NoExc /\ r.todo = NoTodo
             THEN Raise(TodoNotFoundError, r.todos, r.next_id)
             ELSE r

\* faulty variant, for sensitivity of the properties: the title is stored as it came
Service_create_todo_unstripped(d, nid, title, t) ==
    IF strip(title) = <<>> THEN Raise(ValidationError, d, nid)
    ELSE Storage_create_todo(d, nid, title, t)

\* faulty variant, for sensitivity of the properties: a blank title is not looked for
Service_create_todo_blank_unchecked(d, nid, title, t) ==
    IF ~TodoCreateValid([title |-> TVal(strip(title))])
    THEN Raise(PydanticValidationError, d, nid)
    ELSE Storage_create_todo(d, nid, strip(title), t)

Service_create_todo(d, nid, title, t) ==
    IF strip(title) = <<>> THEN Raise(ValidationError, d, nid)
    ELSE IF ~TodoCreateValid([title |-> TVal(strip(title))])
    THEN Raise(PydanticValidationError, d, nid)
    ELSE Storage_create_todo(d, nid, strip(title), t)

\* faulty variant, for sensitivity of the properties: the check for something to update is left out
HasSomethingToUpdate_unchecked(patch) == TRUE

\* "Validate that we have something to update"
HasSomethingToUpdate(patch) ==
    ~IsNone(patch.title) \/ ~IsNone(patch.completed)

\* faulty variant, for sensitivity of the properties: the title is passed on as it came
SanitizedPatch_raw(patch) == patch

\* update_data.title = update_data.title.strip()
SanitizedPatch(patch) ==
    IF IsNone(patch.title) THEN patch
    ELSE [patch EXCEPT !.title = TVal(strip(patch.title.val))]

Service_update_todo(d, nid, todo_id, patch) ==
    IF todo_id <= 0 THEN Raise(ValidationError, d, nid)
    ELSE IF ~HasSomethingToUpdate(patch) THEN Raise(ValidationError, d, nid)
    ELSE IF ~IsNone(patch.title) /\ strip(patch.title.val) = <<>>
    THEN Raise(ValidationError, d, nid)
    ELSE LET r == Storage_update_todo(d, nid, todo_id, SanitizedPatch(patch))
         IN  IF r.exc = NoExc /\ r.todo = NoTodo
             THEN Raise(TodoNotFoundError, r.todos, r.next_id)
             ELSE r

Service_delete_todo(d, nid, todo_id) ==
    IF todo_id <= 0 THEN Raise(ValidationError, d, nid)
    ELSE LET r == Storage_delete_todo(d, nid, todo_id)
         IN  IF r.exc = NoExc /\ r.count = 0
             THEN Raise(TodoNotFoundError, r.todos, r.next_id)
             ELSE r

\* faulty variant, for sensitivity of the properties: pending without the subtraction
StatsOf_pending_as_total(list) ==
    LET total == Len(list)
        completed == Cardinality({i \in 1..Len(list) : list[i].completed})
    IN  [total |-> total, completed |-> completed, pending |-> total]

\* TodoStats(total=, completed=, pending=) of a listing
StatsOf(list) ==
    LET total == Len(list)
        completed == Cardinality({i \in 1..Len(list) : list[i].completed})
    IN  [total |-> total, completed |-> completed,
         pending |-> total - completed]

Service_get_todo_stats(d, nid) ==
    LET r == Storage_get_all_todos(d, nid)
    IN  IF r.exc # NoExc THEN r ELSE [r EXCEPT !.stats = StatsOf(r.list)]

Service_mark_all_complete(d, nid) == Storage_mark_all_complete(d, nid)

Service_delete_completed_todos(d, nid) == Storage_delete_completed_todos(d, nid)

Service_delete_all_todos(d, nid) == Storage_delete_all_todos(d, nid)

(***************************************************************************)
(* routes.py and main.py: the routes in the order they are registered      *)
(* (health_check, then the router's routes from top to bottom).  A path is *)
(* the sequence of its segments.                                           *)
(***************************************************************************)
Param == "{todo_id}"

Routes == <<
    [method |-> "GET", path |-> <<"health">>, handler |-> "health_check"],
    [method |-> "GET", path |-> <<"api", "todos">>, handler |-> "get_todos"],
    [method |-> "GET", path |-> <<"api", "todos", Param>>, handler |-> "get_todo"],
    [method |-> "POST", path |-> <<"api", "todos">>, handler |-> "create_todo"],
    [method |-> "PUT", path |-> <<"api", "todos", Param>>, handler |-> "update_todo"],
    [method |-> "DELETE", path |-> <<"api", "todos", Param>>, handler |-> "delete_todo"],
    [method |-> "GET", path |-> <<"api", "todos", "stats">>, handler |-> "get_todo_stats"],
    [method |-> "POST", path |-> <<"api", "todos", "bulk", "mark-complete">>,
     handler |-> "mark_all_complete"],
    [method |-> "DELETE", path |-> <<"api", "todos", "bulk", "completed">>,
     handler |-> "delete_completed_todos"],
    [method |-> "DELETE", path |-> <<"api", "todos", "bulk", "all">>,
     handler |-> "delete_all_todos"] >>

\* a route's path matches: a parameter takes any one segment
PathMatches(template, path) ==
    /\ Len(template) = Len(path)
    /\ \A i \in 1..Len(path) : template[i] = Param \/ template[i] = path[i]

\* the router takes the first route that matches path and method; with none,
\* a path that matches under another method is 405, any other path 404
Dispatch(method, path) ==
    LET full == {i \in 1..Len(Routes) :
                    PathMatches(Routes[i].path, path) /\ Routes[i].method = method}
        partial == {i \in 1..Len(Routes) : PathMatches(Routes[i].path, path)}
    IN  IF full # {}
        THEN Routes[CHOOSE i \in full : \A j \in full : i <= j].handler
        ELSE IF partial # {} THEN "method_not_allowed" ELSE "not_found"

\* the text of an int in a path, and the conversion of `todo_id: int`
\* the integers that todo_id: int is given in a path: below 0, 0, and the
\* ids the store can issue
PathIds == (-1)..MaxId

IntSegments == {ToString(i) : i \in PathIds}

IsInt(seg) == \E i \in PathIds : ToString(i) = seg

ParseInt(seg) == CHOOSE i \in PathIds : ToString(i) = seg

\* faulty variant, for sensitivity of the properties: `except Exception` comes first in every handler
ExceptClauses_generic_first(handler) ==
    << [catches |-> Exceptions, status |-> 500],
       [catches |-> {TodoNotFoundError}, status |-> 404],
       [catches |-> {ValidationError}, status |-> 400] >>

\* the except clauses of each handler, in order: the classes caught and the
\* status of the HTTPException raised
ExceptClauses(handler) ==
    CASE handler \in {"get_todo", "update_todo", "delete_todo"} ->
            << [catches |-> {TodoNotFoundError}, status |-> 404],
               [catches |-> {ValidationError}, status |-> 400],
               [catches |-> Exceptions, status |-> 500] >>
      [] handler = "create_todo" ->
            << [catches |-> {ValidationError}, status |-> 400],
               [catches |-> Exceptions, status |-> 500] >>
      [] OTHER ->
            << [catches |-> Exceptions, status |-> 500] >>

\* an except clause of the handler catches the exception
Caught(handler, exc) ==
    \E i \in 1..Len(ExceptClauses(handler)) :
        exc \in ExceptClauses(handler)[i].catches

\* the status a handler answers a failure of its service call with: that of
\* the first except clause that catches it; an exception no clause catches
\* leaves the handler for todo_exception_handler (400) or
\* global_exception_handler (500)
RouteStatus(handler, exc) ==
    LET cs == ExceptClauses(handler)
        hit == {i \in 1..Len(cs) : exc \in cs[i].catches}
    IN  IF hit # {} THEN cs[CHOOSE i \in hit : \A j \in hit : i <= j].status
        ELSE IF exc \in TodoAppExceptions THEN 400
        ELSE 500

\* status_code of the route decorator
SuccessStatus(handler) ==
    CASE handler = "create_todo" -> 201
      [] handler = "delete_todo" -> 204
      [] OTHER -> 200

\* the fields of the response_model's JSON object
SuccessFields(handler) ==
    CASE handler \in {"get_todo", "create_todo", "update_todo"} ->
            {"id", "title", "completed", "created_at"}
      [] handler = "get_todo_stats" -> {"total", "completed", "pending"}
      [] handler \in {"mark_all_complete", "delete_completed_todos",
                      "delete_all_todos"} -> {"message", "affected_count"}
      [] handler = "health_check" -> {"status", "app_name", "version"}
      [] OTHER -> {}

\* what an except clause raises is an HTTPException(status_code, detail):
\* the framework answers it with {"detail": exc.detail}
HTTPExceptionFields == {"detail"}

\* the content of todo_exception_handler and global_exception_handler, which
\* answer what leaves a handler uncaught
ExceptionHandlerFields == {"detail", "error_code"}

(***************************************************************************)
(* Requests                                                                *)
(***************************************************************************)
NoBody == [title |-> TUnset, completed |-> CUnset]

TitleFields == {TUnset, TNull} \cup {TVal(s) : s \in TitleSamples}

CompletedFields == {CUnset, CNull, CVal(TRUE), CVal(FALSE)}

Req(method, path, body) == [method |-> method, path |-> path, body |-> body]

NoReq == Req("NONE", <<>>, NoBody)

Requests ==
    {Req("GET", <<"health">>, NoBody), Req("GET", <<"api">>, NoBody),
     Req("GET", <<"api", "todos">>, NoBody),
     Req("DELETE", <<"api", "todos">>, NoBody),
     Req("GET", <<"api", "todos", "stats">>, NoBody),
     Req("POST", <<"api", "todos", "bulk", "mark-complete">>, NoBody),
     Req("DELETE", <<"api", "todos", "bulk", "completed">>, NoBody),
     Req("DELETE", <<"api", "todos", "bulk", "all">>, NoBody)}
    \cup {Req("POST", <<"api", "todos">>, [title |-> f, completed |-> CUnset]) :
            f \in TitleFields}
    \cup {Req(m, <<"api", "todos", seg>>, NoBody) :
            m \in {"GET", "DELETE"}, seg \in IntSegments}
    \cup {Req("PUT", <<"api", "todos", seg>>, [title |-> f, completed |-> c]) :
            seg \in IntSegments, f \in TitleFields, c \in CompletedFields}

(***************************************************************************)
(* State                                                                   *)
(***************************************************************************)
VARIABLES
    todos,      \* InMemoryTodoStorage._todos
    next_id,    \* InMemoryTodoStorage._next_id
    lock,       \* InMemoryTodoStorage._lock: the thread holding it, or NoThread
    now,        \* the latest reading of the clock (datetime.utcnow())
    issued,     \* history: the ids create_todo has returned, in order
    fresh,      \* history: the todos create_todo returned that no update,
                \* delete or bulk operation has been called for since (Spec)
    last,       \* history: the latest request and its response (Spec)
    pc,         \* SpecConc: where each thread is in its storage call
    call,       \* SpecConc: the storage method each thread is in
    local       \* SpecConc: the local variables of each thread's call

vars == <<todos, next_id, lock, now, issued, fresh, last, pc, call, local>>

storeVars == <<todos, next_id, lock>>

threadVars == <<pc, call, local>>

\* a response: the handler that answered, what its service call raised
\* ("not_called" when the service was not reached), the status, the fields
\* of the JSON body, the kind of its "detail" field, and what was returned
Response(req, handler, exc, status, fields, detail, r) ==
    [req |-> req, handler |-> handler, exc |-> exc, status |-> status,
     fields |-> fields, detail |-> detail,
     todo |-> r.todo, count |-> r.count, list |-> r.list, stats |-> r.stats]

Nothing == Raise(NoExc, <<>>, 0)

NoResponse == Response(NoReq, "none", "not_called", 0, {}, "none", Nothing)

\* datetime.utcnow(): no earlier than the latest reading
ClockReadings == {t \in now..(now + 1) : t <= MaxClock}

\* a call's arguments (todo_id, title, patch) and local variables: the
\* current or built Todo, the position of a loop, completed_ids, a count
\* (affected_count, count, or 1 for True), the listing
NoLocal == [todo_id |-> 0, title |-> <<>>, patch |-> NoBody, cur |-> NoTodo,
            i |-> 0, ids |-> <<>>, count |-> 0, list |-> <<>>]

Init ==
    /\ todos = <<>>
    /\ next_id = 1
    /\ lock = NoThread
    /\ now = 0
    /\ issued = <<>>
    /\ fresh = {}
    /\ last = NoResponse
    /\ pc = [t \in Threads |-> "idle"]
    /\ call = [t \in Threads |-> "none"]
    /\ local = [t \in Threads |-> NoLocal]

(***************************************************************************)
(* Spec: one step per request.  The handler's try block calls the service; *)
(* a failure is answered by the first except clause that catches it.       *)
(***************************************************************************)
\* the response to the outcome r of the handler's service call
Answer(req, handler, r) ==
    IF r.exc = NoExc
    THEN Response(req, handler, NoExc, SuccessStatus(handler),
                  SuccessFields(handler), "none", r)
    ELSE Response(req, handler, r.exc, RouteStatus(handler, r.exc),
                  IF Caught(handler, r.exc) THEN HTTPExceptionFields
                  ELSE ExceptionHandlerFields,
                  "string", Nothing)

\* RequestValidationError: the path parameter or the body does not validate;
\* the handler is not entered
Unprocessable(req, handler) ==
    Response(req, handler, "not_called", 422, {"detail"}, "list", Nothing)

\* a request is taken up when the response to the one before it is sent
Ready == last = NoResponse /\ lock = NoThread

\* the todos of `fresh` after the handler's service call: a create adds the
\* todo it returns; update_todo and delete_todo are operations on the id of
\* their path, the three bulk operations on every id
StillFresh(req, handler, r) ==
    IF handler = "create_todo"
    THEN IF r.exc = NoExc THEN fresh \cup {r.todo} ELSE fresh
    ELSE IF handler \in {"update_todo", "delete_todo"}
    THEN {f \in fresh : f.id # ParseInt(req.path[3])}
    ELSE IF handler \in {"mark_all_complete", "delete_completed_todos",
                         "delete_all_todos"}
    THEN {}
    ELSE fresh

\* the store after the service call, and the response
Handle(req, handler, r) ==
    /\ Ready
    /\ r.next_id <= MaxId + 1
    /\ todos' = r.todos
    /\ next_id' = r.next_id
    /\ last' = Answer(req, handler, r)
    /\ issued' = IF handler = "create_todo" /\ r.exc = NoExc
                 THEN Append(issued, r.todo.id) ELSE issued
    /\ fresh' = StillFresh(req, handler, r)
    /\ UNCHANGED <<lock, threadVars>>

Reject(req, handler) ==
    /\ Ready
    /\ last' = Unprocessable(req, handler)
    /\ UNCHANGED <<storeVars, now, issued, fresh, threadVars>>

\* the requests that the router hands to each handler (or answers itself)
Destinations ==
    {Routes[i].handler : i \in 1..Len(Routes)} \cup {"not_found", "method_not_allowed"}

RoutedTo ==
    [h \in Destinations |-> {req \in Requests : Dispatch(req.method, req.path) = h}]

health_check ==
    \E req \in RoutedTo["health_check"] :
        /\ Ready
        /\ last' = Response(req, "health_check", "not_called", 200,
                            SuccessFields("health_check"), "none", Nothing)
        /\ UNCHANGED <<storeVars, now, issued, fresh, threadVars>>

get_todos ==
    \E req \in RoutedTo["get_todos"] :
        /\ Handle(req, "get_todos", Service_get_all_todos(todos, next_id))
        /\ UNCHANGED now

get_todo ==
    \E req \in RoutedTo["get_todo"] :
        /\ IF IsInt(req.path[3])
           THEN Handle(req, "get_todo",
                       Service_get_todo_by_id(todos, next_id, ParseInt(req.path[3])))
           ELSE Reject(req, "get_todo")
        /\ UNCHANGED now

create_todo ==
    \E req \in RoutedTo["create_todo"], t \in ClockReadings :
        /\ IF TodoCreateValid(req.body)
           THEN LET r == Service_create_todo(todos, next_id, req.body.title.val, t)
                IN  /\ Handle(req, "create_todo", r)
                    /\ now' = IF r.exc = NoExc THEN t ELSE now
           ELSE Reject(req, "create_todo")

update_todo ==
    \E req \in RoutedTo["update_todo"] :
        /\ IF IsInt(req.path[3]) /\ TodoUpdateValid(req.body)
           THEN Handle(req, "update_todo",
                       Service_update_todo(todos, next_id, ParseInt(req.path[3]),
                                           req.body))
           ELSE Reject(req, "update_todo")
        /\ UNCHANGED now

delete_todo ==
    \E req \in RoutedTo["delete_todo"] :
        /\ IF IsInt(req.path[3])
           THEN Handle(req, "delete_todo",
                       Service_delete_todo(todos, next_id, ParseInt(req.path[3])))
           ELSE Reject(req, "delete_todo")
        /\ UNCHANGED now

\* no request is routed to get_todo_stats (Dispatch: GET /api/todos/stats
\* matches the route of get_todo first), so it is no disjunct of Next
get_todo_stats ==
    \E req \in RoutedTo["get_todo_stats"] :
        /\ Handle(req, "get_todo_stats", Service_get_todo_stats(todos, next_id))
        /\ UNCHANGED now

mark_all_complete ==
    \E req \in RoutedTo["mark_all_complete"] :
        /\ Handle(req, "mark_all_complete",
                  Service_mark_all_complete(todos, next_id))
        /\ UNCHANGED now

delete_completed_todos ==
    \E req \in RoutedTo["delete_completed_todos"] :
        /\ Handle(req, "delete_completed_todos",
                  Service_delete_completed_todos(todos, next_id))
        /\ UNCHANGED now

delete_all_todos ==
    \E req \in RoutedTo["delete_all_todos"] :
        /\ Handle(req, "delete_all_todos",
                  Service_delete_all_todos(todos, next_id))
        /\ UNCHANGED now

\* no route: the router answers 404, or 405 when only the method is wrong
Unrouted ==
    \E req \in RoutedTo["not_found"] \cup RoutedTo["method_not_allowed"] :
        /\ Ready
        /\ last' = Response(req, Dispatch(req.method, req.path), "not_called",
                            IF Dispatch(req.method, req.path) = "not_found"
                            THEN 404 ELSE 405,
                            {"detail"}, "string", Nothing)
        /\ UNCHANGED <<storeVars, now, issued, fresh, threadVars>>

\* TodoService.get_todo_stats() called on the service object, as the demo
\* script does
call_get_todo_stats ==
    /\ Handle(NoReq, "TodoService.get_todo_stats",
              Service_get_todo_stats(todos, next_id))
    /\ UNCHANGED now

\* the response is sent
send_response ==
    /\ last # NoResponse
    /\ last' = NoResponse
    /\ UNCHANGED <<storeVars, now, issued, fresh, threadVars>>

Next ==
    \/ health_check
    \/ get_todos
    \/ get_todo
    \/ create_todo
    \/ update_todo
    \/ delete_todo
    \/ mark_all_complete
    \/ delete_completed_todos
    \/ delete_all_todos
    \/ Unrouted
    \/ call_get_todo_stats
    \/ send_response

Spec == Init /\ [][Next]_vars

(***************************************************************************)
(* SpecConc: threads calling the methods of one InMemoryTodoStorage.  A    *)
(* pc names the line of storage.py the thread is about to run; "acquire"   *)
(* is the entry of `with self._lock`, "return" and "raise" its exit.       *)
(***************************************************************************)
\* what the service passes down: stripped titles, ids above 0, patches with
\* a field to update (one of them with completed given as null)
ConcTitles == {strip(s) : s \in TitleSamples} \ {<<>>}

ConcPatches ==
    {[title |-> TUnset, completed |-> CVal(TRUE)],
     [title |-> TUnset, completed |-> CVal(FALSE)],
     [title |-> TVal(<<"b">>), completed |-> CUnset],
     [title |-> TUnset, completed |-> CNull]}

Args(todo_id, title, patch) ==
    [NoLocal EXCEPT !.todo_id = todo_id, !.title = title, !.patch = patch]

ArgsOf(method) ==
    CASE method = "create_todo" ->
            {Args(0, s, NoBody) : s \in ConcTitles}
      [] method \in {"get_todo_by_id", "delete_todo"} ->
            {Args(k, <<>>, NoBody) : k \in 1..MaxId}
      [] method = "update_todo" ->
            {Args(k, <<>>, p) : k \in 1..MaxId, p \in ConcPatches}
      [] OTHER -> {NoLocal}

\* the first line of each method's critical section
Entry(method) ==
    CASE method = "get_all_todos" -> "L71"
      [] method = "get_todo_by_id" -> "L77"
      [] method = "create_todo" -> "L82"
      [] method = "update_todo" -> "L98"
      [] method = "delete_todo" -> "L120"
      [] method = "mark_all_complete" -> "L128"
      [] method = "delete_completed_todos" -> "L144"
      [] method = "delete_all_todos" -> "L157"

StorageMethods ==
    {"get_all_todos", "get_todo_by_id", "create_todo", "update_todo",
     "delete_todo", "mark_all_complete", "delete_completed_todos",
     "delete_all_todos"}

\* the creates that have been called and have not yet bumped the counter
CreatesPending ==
    {u \in Threads : call[u] = "create_todo" /\ pc[u] \in {"acquire", "L82", "L83"}}

Goto(t, label) == pc' = [pc EXCEPT ![t] = label]

SetLocal(t, l) == local' = [local EXCEPT ![t] = l]

At(t, method, label) == call[t] = method /\ pc[t] = label

\* a thread calls a method.  Its arguments are its own and are read only
\* inside the critical section: they are drawn when that is entered.
Call ==
    \E t \in Threads, method \in StorageMethods :
        /\ pc[t] = "idle"
        /\ method = "create_todo" =>
              next_id + Cardinality(CreatesPending) <= MaxId
        /\ call' = [call EXCEPT ![t] = method]
        /\ Goto(t, "acquire")
        /\ UNCHANGED <<storeVars, now, issued, fresh, last, local>>

\* faulty variant, for sensitivity of the properties: create_todo does not take the lock
MayEnter_create_unlocked(method) ==
    method = "create_todo" \/ lock = NoThread

\* faulty variant, for sensitivity of the properties: the two reading methods do not take the lock
MayEnter_reads_unlocked(method) ==
    method \in {"get_all_todos", "get_todo_by_id"} \/ lock = NoThread

\* `with self._lock` of each method: Lock.acquire() blocks while the lock
\* is held
MayEnter(method) == lock = NoThread

\* with self._lock:
Acquire ==
    \E t \in Threads :
        /\ pc[t] = "acquire"
        /\ MayEnter(call[t])
        /\ lock' = t
        /\ \E args \in ArgsOf(call[t]) : SetLocal(t, args)
        /\ Goto(t, Entry(call[t]))
        /\ UNCHANGED <<todos, next_id, now, issued, fresh, last, call>>

\* todos = list(self._todos.values()); return sorted(...)
get_all_todos_L71 ==
    \E t \in Threads :
        /\ At(t, "get_all_todos", "L71")
        /\ SetLocal(t, [local[t] EXCEPT !.list = SortedDesc(DictValues(todos))])
        /\ Goto(t, "return")
        /\ UNCHANGED <<storeVars, now, issued, fresh, last, call>>

\* return self._todos.get(todo_id)
get_todo_by_id_L77 ==
    \E t \in Threads :
        /\ At(t, "get_todo_by_id", "L77")
        /\ SetLocal(t, [local[t] EXCEPT !.cur = DictGetOrNone(todos, local[t].todo_id)])
        /\ Goto(t, "return")
        /\ UNCHANGED <<storeVars, now, issued, fresh, last, call>>

\* todo_id = self._next_id
create_todo_L82 ==
    \E t \in Threads :
        /\ At(t, "create_todo", "L82")
        /\ SetLocal(t, [local[t] EXCEPT !.todo_id = next_id])
        /\ Goto(t, "L83")
        /\ UNCHANGED <<storeVars, now, issued, fresh, last, call>>

\* faulty variant, for sensitivity of the properties: the counter is left as it is
create_todo_L83_unbumped ==
    \E t \in Threads :
        /\ At(t, "create_todo", "L83")
        /\ Goto(t, "L85")
        /\ UNCHANGED <<storeVars, now, issued, fresh, last, call, local>>

\* self._next_id += 1
create_todo_L83 ==
    \E t \in Threads :
        /\ At(t, "create_todo", "L83")
        /\ next_id' = next_id + 1
        /\ Goto(t, "L85")
        /\ UNCHANGED <<todos, lock, now, issued, fresh, last, call, local>>

\* todo = Todo(..., created_at=datetime.utcnow()); self._todos[todo_id] = todo
create_todo_L85 ==
    \E t \in Threads, at \in ClockReadings :
        /\ At(t, "create_todo", "L85")
        /\ now' = at
        /\ todos' = DictSet(todos, local[t].todo_id,
                            NewTodo(local[t].todo_id, local[t].title, at))
        /\ SetLocal(t, [local[t] EXCEPT
                          !.cur = NewTodo(local[t].todo_id, local[t].title, at)])
        /\ Goto(t, "return")
        /\ UNCHANGED <<next_id, lock, issued, fresh, last, call>>

\* if todo_id not in self._todos: return None
\* current_todo = self._todos[todo_id]
update_todo_L98 ==
    \E t \in Threads :
        /\ At(t, "update_todo", "L98")
        /\ IF DictHas(todos, local[t].todo_id)
           THEN /\ SetLocal(t, [local[t] EXCEPT !.cur = DictGet(todos, local[t].todo_id)])
                /\ Goto(t, "L107")
           ELSE /\ SetLocal(t, [local[t] EXCEPT !.cur = NoTodo])
                /\ Goto(t, "return")
        /\ UNCHANGED <<storeVars, now, issued, fresh, last, call>>

\* updated_todo = Todo(...); self._todos[todo_id] = updated_todo
update_todo_L107 ==
    \E t \in Threads :
        /\ At(t, "update_todo", "L107")
        /\ IF TodoValid(PatchedTitle(local[t].cur, local[t].patch),
                        PatchedCompleted(local[t].cur, local[t].patch))
           THEN /\ todos' = DictSet(todos, local[t].todo_id,
                                    UpdatedTodo(local[t].cur, local[t].patch))
                /\ SetLocal(t, [local[t] EXCEPT
                                  !.cur = UpdatedTodo(local[t].cur, local[t].patch)])
                /\ Goto(t, "return")
           ELSE /\ Goto(t, "raise")
                /\ UNCHANGED <<todos, local>>
        /\ UNCHANGED <<next_id, lock, now, issued, fresh, last, call>>

\* if todo_id in self._todos: del self._todos[todo_id]; return True
\* return False
delete_todo_L120 ==
    \E t \in Threads :
        /\ At(t, "delete_todo", "L120")
        /\ IF DictHas(todos, local[t].todo_id)
           THEN /\ todos' = DictDel(todos, local[t].todo_id)
                /\ SetLocal(t, [local[t] EXCEPT !.count = 1])
           ELSE /\ SetLocal(t, [local[t] EXCEPT !.count = 0])
                /\ UNCHANGED todos
        /\ Goto(t, "return")
        /\ UNCHANGED <<next_id, lock, now, issued, fresh, last, call>>

\* affected_count = 0; for todo_id, todo in self._todos.items():
mark_all_complete_L128 ==
    \E t \in Threads :
        /\ At(t, "mark_all_complete", "L128")
        /\ SetLocal(t, [local[t] EXCEPT !.count = 0, !.i = 1])
        /\ Goto(t, "L129")
        /\ UNCHANGED <<storeVars, now, issued, fresh, last, call>>

\* one turn of the loop: the next item, replaced if it is not completed;
\* return affected_count after the last
mark_all_complete_L129 ==
    \E t \in Threads :
        /\ At(t, "mark_all_complete", "L129")
        /\ IF local[t].i > Len(todos)
           THEN /\ Goto(t, "return")
                /\ UNCHANGED <<todos, local>>
           ELSE /\ IF todos[local[t].i].val.completed
                   THEN /\ SetLocal(t, [local[t] EXCEPT !.i = @ + 1])
                        /\ UNCHANGED todos
                   ELSE /\ todos' = [todos EXCEPT ![local[t].i].val =
                                        CompletedTodo(todos[local[t].i].val)]
                        /\ SetLocal(t, [local[t] EXCEPT !.i = @ + 1,
                                                        !.count = @ + 1])
                /\ UNCHANGED pc
        /\ UNCHANGED <<next_id, lock, now, issued, fresh, last, call>>

\* completed_ids = [todo_id for todo_id, todo in self._todos.items()
\*                  if todo.completed]
delete_completed_todos_L144 ==
    \E t \in Threads :
        /\ At(t, "delete_completed_todos", "L144")
        /\ SetLocal(t, [local[t] EXCEPT !.ids = CompletedIds(todos), !.i = 1])
        /\ Goto(t, "L149")
        /\ UNCHANGED <<storeVars, now, issued, fresh, last, call>>

\* one turn of the loop: del self._todos[todo_id];
\* return len(completed_ids) after the last
delete_completed_todos_L149 ==
    \E t \in Threads :
        /\ At(t, "delete_completed_todos", "L149")
        /\ IF local[t].i > Len(local[t].ids)
           THEN /\ SetLocal(t, [local[t] EXCEPT !.count = Len(local[t].ids)])
                /\ Goto(t, "return")
                /\ UNCHANGED todos
           ELSE /\ todos' = DictDel(todos, local[t].ids[local[t].i])
                /\ SetLocal(t, [local[t] EXCEPT !.i = @ + 1])
                /\ UNCHANGED pc
        /\ UNCHANGED <<next_id, lock, now, issued, fresh, last, call>>

\* count = len(self._todos)
delete_all_todos_L157 ==
    \E t \in Threads :
        /\ At(t, "delete_all_todos", "L157")
        /\ SetLocal(t, [local[t] EXCEPT !.count = Len(todos)])
        /\ Goto(t, "L158")
        /\ UNCHANGED <<storeVars, now, issued, fresh, last, call>>

\* self._todos.clear(); return count
delete_all_todos_L158 ==
    \E t \in Threads :
        /\ At(t, "delete_all_todos", "L158")
        /\ todos' = <<>>
        /\ Goto(t, "return")
        /\ UNCHANGED <<next_id, lock, now, issued, fresh, last, call, local>>

\* faulty variant, for sensitivity of the properties: the lock is released by a release()
\* at the method's end, which an exception passes by
Release_not_on_raise ==
    \E t \in Threads :
        /\ pc[t] \in {"return", "raise"}
        /\ lock' = IF pc[t] = "raise" THEN lock ELSE NoThread
        /\ issued' = IF call[t] = "create_todo" /\ pc[t] = "return"
                     THEN Append(issued, local[t].cur.id) ELSE issued
        /\ UNCHANGED fresh
        /\ Goto(t, "idle")
        /\ call' = [call EXCEPT ![t] = "none"]
        /\ SetLocal(t, NoLocal)
        /\ UNCHANGED <<todos, next_id, now, last>>

\* the with block is left, by return or by an exception: the lock is
\* released; a create's caller has its Todo
Release ==
    \E t \in Threads :
        /\ pc[t] \in {"return", "raise"}
        /\ lock' = NoThread
        /\ issued' = IF call[t] = "create_todo" /\ pc[t] = "return"
                     THEN Append(issued, local[t].cur.id) ELSE issued
        /\ UNCHANGED fresh
        /\ Goto(t, "idle")
        /\ call' = [call EXCEPT ![t] = "none"]
        /\ SetLocal(t, NoLocal)
        /\ UNCHANGED <<todos, next_id, now, last>>

NextConc ==
    \/ Call
    \/ Acquire
    \/ get_all_todos_L71
    \/ get_todo_by_id_L77
    \/ create_todo_L82
    \/ create_todo_L83
    \/ create_todo_L85
    \/ update_todo_L98
    \/ update_todo_L107
    \/ delete_todo_L120
    \/ mark_all_complete_L128
    \/ mark_all_complete_L129
    \/ delete_completed_todos_L144
    \/ delete_completed_todos_L149
    \/ delete_all_todos_L157
    \/ delete_all_todos_L158
    \/ Release

SpecConc == Init /\ [][NextConc]_vars

\* a step of thread t inside a storage method, its entry into the with
\* block included (calling a method is not one)
ThreadStep(t) ==
    /\ pc[t] # "idle"
    /\ NextConc
    /\ pc'[t] # pc[t] \/ local'[t] # local[t]

\* SpecConc under fair scheduling: a thread that can step does, and a
\* thread waiting for a lock that is free again and again gets it
SpecConcFair == SpecConc /\ \A t \in Threads : SF_vars(ThreadStep(t))

(***************************************************************************)
(* Properties                                                              *)
(***************************************************************************)
ApiHandlers ==
    {"get_todos", "get_todo", "create_todo", "update_todo", "delete_todo",
     "get_todo_stats", "mark_all_complete", "delete_completed_todos",
     "delete_all_todos"}

\* the handlers of the routes with an id or a body
IdOrBodyHandlers == {"get_todo", "create_todo", "update_todo", "delete_todo"}

\* this step answers a request that reached the service through `handler`
Served(handler) ==
    last = NoResponse /\ last'.handler = handler /\ last'.exc # "not_called"

\* the id in the path of the latest request
PathId(resp) == ParseInt(resp.req.path[3])

\* C1: every id a create returns is greater than every id a create returned
\* before it, whatever was deleted in between: no id is issued twice.
C1_IdsIncrease ==
    \A i, j \in 1..Len(issued) : i < j => issued[i] < issued[j]

\* a create has just been answered with a greater id after the todo of the
\* first id was removed and the store emptied
C1_Witness ==
    /\ Len(issued) >= 2
    /\ last.handler = "create_todo" /\ last.status = 201
    /\ last.todo.id = issued[Len(issued)]
    /\ DictKeys(todos) = {last.todo.id}

\* a create that holds the id it took from the counter
HoldsId(t) == call[t] = "create_todo" /\ pc[t] \in {"L83", "L85", "return"}

\* C2: concurrent creates get distinct ids: no id is returned twice, no two
\* creates in progress hold the same id or an id already returned, and a
\* create never stores its todo over one that is there.
C2_DistinctIds ==
    /\ \A i, j \in 1..Len(issued) : i # j => issued[i] # issued[j]
    /\ \A t \in Threads : HoldsId(t) =>
          /\ \A i \in 1..Len(issued) : issued[i] # local[t].todo_id
          /\ \A u \in Threads \ {t} :
                HoldsId(u) => local[u].todo_id # local[t].todo_id
    /\ \A t \in Threads :
          At(t, "create_todo", "L85") => ~DictHas(todos, local[t].todo_id)

\* two creates are in progress at once: one has stored its todo and is about
\* to return its id, the other waits for the lock
C2_Witness ==
    \E t, u \in Threads :
        /\ t # u
        /\ At(t, "create_todo", "return")
        /\ At(u, "create_todo", "acquire")

\* a thread is inside a critical section
InCritical(t) == pc[t] \notin {"idle", "acquire"}

\* the operation of thread w is applied in part: some of the todos to mark
\* or to delete are done and some are not, or a create has taken its id and
\* has not stored its todo
PartlyApplied(w) ==
    \/ /\ At(w, "mark_all_complete", "L129")
       /\ local[w].count > 0
       /\ \E j \in local[w].i..Len(todos) : ~todos[j].val.completed
    \/ /\ At(w, "delete_completed_todos", "L149")
       /\ local[w].i > 1
       /\ local[w].i <= Len(local[w].ids)
    \/ At(w, "create_todo", "L85")

\* C3: while an operation is applied in part, no other thread is inside a
\* storage operation: what any operation reads is the store before or after
\* each other operation.
C3_NoPartialView ==
    \A w \in Threads :
        PartlyApplied(w) => \A r \in Threads \ {w} : ~InCritical(r)

\* a bulk operation is applied in part while another thread has called a
\* reading method or create and waits for the lock
C3_Witness ==
    \E w, r \in Threads :
        /\ w # r
        /\ PartlyApplied(w)
        /\ call[w] \in {"mark_all_complete", "delete_completed_todos"}
        /\ pc[r] = "acquire"
        /\ call[r] \in {"get_all_todos", "get_todo_by_id", "create_todo"}

\* C4: GET /api/todos/stats is answered by get_todo_stats with 200 and
\* {total, completed, pending}.
C4_StatsRoute ==
    last.req = Req("GET", <<"api", "todos", "stats">>, NoBody) =>
        /\ last.handler = "get_todo_stats"
        /\ last.status = 200
        /\ last.fields = {"total", "completed", "pending"}

\* C5: every 4xx and 5xx response of the /api routes has a body with a
\* string detail and a string error_code.
C5_ErrorBody ==
    (last.handler \in ApiHandlers /\ last.status >= 400) =>
        /\ {"detail", "error_code"} \subseteq last.fields
        /\ last.detail = "string"

\* C6: POST /api/todos with title "" is answered 400, without a title 422,
\* and neither creates a todo.
C6_CreateRejected ==
    [][\A f \in {TVal(<<>>), TUnset} :
          (last = NoResponse
           /\ last'.req = Req("POST", <<"api", "todos">>,
                              [title |-> f, completed |-> CUnset]))
          => /\ last'.status = IF f = TUnset THEN 422 ELSE 400
             /\ todos' = todos
             /\ next_id' = next_id]_vars

\* C7: on the routes with an id or a body, a ValidationError of the service
\* is answered 400, a TodoNotFoundError 404, any other exception 500 (a
\* StorageError too, whichever of these handlers it reaches), and no failure
\* is answered 2xx.
C7_FailureStatus ==
    /\ (last.handler \in IdOrBodyHandlers /\ last.exc \in Exceptions) =>
          /\ last.exc = ValidationError => last.status = 400
          /\ last.exc = TodoNotFoundError => last.status = 404
          /\ last.exc \notin {ValidationError, TodoNotFoundError} =>
                last.status = 500
          /\ last.status \notin 200..299
    /\ \A h \in IdOrBodyHandlers : RouteStatus(h, StorageError) = 500

\* each of the three kinds of failure has been answered: here the third,
\* an exception that is neither of the service's two
C7_Witness ==
    /\ last.handler = "update_todo"
    /\ last.exc = PydanticValidationError
    /\ last.status = 500

\* C8: update with an id above 0, a patch with title or completed set and a
\* set title that is not blank either returns the updated Todo, stored with
\* the stripped title, when the id is stored, or fails with
\* TodoNotFoundError when it is not.
C8_UpdateOutcomes ==
    (/\ last.handler = "update_todo" /\ last.exc # "not_called"
     /\ PathId(last) > 0
     /\ ~IsNone(last.req.body.title) \/ ~IsNone(last.req.body.completed)
     /\ ~IsNone(last.req.body.title) => strip(last.req.body.title.val) # <<>>)
    => \/ /\ last.exc = NoExc
          /\ DictHas(todos, PathId(last))
          /\ DictGet(todos, PathId(last)) = last.todo
          /\ ~IsNone(last.req.body.title) =>
                last.todo.title = strip(last.req.body.title.val)
       \/ /\ last.exc = TodoNotFoundError
          /\ ~DictHas(todos, PathId(last))

\* C9: an update of a stored todo leaves every other todo as it was, and of
\* the todo itself its id, its created_at, its place, and each of title and
\* completed that the patch does not give; a field the patch gives takes the
\* (stripped) value.
C9_UpdateFrame ==
    [][(Served("update_todo") /\ DictHas(todos, PathId(last')))
       => LET id == PathId(last')
              patch == last'.req.body
              old == DictGet(todos, id)
              new == DictGet(todos', id)
          IN  /\ Len(todos') = Len(todos)
              /\ \A i \in 1..Len(todos) :
                    /\ todos'[i].key = todos[i].key
                    /\ todos[i].key # id => todos'[i] = todos[i]
              /\ new.id = old.id
              /\ new.created_at = old.created_at
              /\ IsNone(patch.title) => new.title = old.title
              /\ IsNone(patch.completed) => new.completed = old.completed
              /\ last'.exc = NoExc =>
                    /\ last'.todo = new
                    /\ ~IsNone(patch.title) => new.title = strip(patch.title.val)
                    /\ ~IsNone(patch.completed) =>
                          new.completed = patch.completed.val]_vars

\* a patch with completed alone has been applied to a completed-or-not todo
\* with a title, beside another stored todo
C9_Witness ==
    /\ last.handler = "update_todo" /\ last.exc = NoExc
    /\ last.req.body.title = TUnset
    /\ last.req.body.completed = CVal(TRUE)
    /\ Len(todos) >= 2
    /\ last.todo.title = <<"b">>

\* C10: update with a patch in which neither title nor completed is set
\* fails with ValidationError, whether the id is stored or not, and leaves
\* the store as it was.
C10_EmptyPatch ==
    [][(/\ Served("update_todo")
        /\ IsNone(last'.req.body.title)
        /\ IsNone(last'.req.body.completed))
       => /\ last'.exc = ValidationError
          /\ todos' = todos
          /\ next_id' = next_id]_vars

\* an empty patch for a stored id has been refused
C10_Witness ==
    /\ last.handler = "update_todo" /\ last.exc = ValidationError
    /\ IsNone(last.req.body.title) /\ IsNone(last.req.body.completed)
    /\ DictHas(todos, PathId(last))

\* the title of the latest request's body is a string that is blank
BlankTitle(resp) ==
    /\ resp.req.body.title.state = "value"
    /\ strip(resp.req.body.title.val) = <<>>

\* C11: create with a title that is not blank returns a Todo that is not
\* completed, with a positive id that no stored todo had and the stripped
\* title, and stores that Todo under its id and nowhere else.
C11_CreateReturns ==
    [][(Served("create_todo") /\ ~BlankTitle(last'))
       => /\ last'.exc = NoExc
          /\ last'.todo.completed = FALSE
          /\ last'.todo.id > 0
          /\ last'.todo.title = strip(last'.req.body.title.val)
          /\ ~DictHas(todos, last'.todo.id)
          /\ \A i \in 1..Len(todos) : todos[i].val.id # last'.todo.id
          /\ Cardinality({i \in 1..Len(todos') :
                            todos'[i].key = last'.todo.id
                            \/ todos'[i].val.id = last'.todo.id}) = 1
          /\ DictGet(todos', last'.todo.id) = last'.todo]_vars

\* a title with blanks around it has been stored stripped, beside a todo
\* stored before
C11_Witness ==
    /\ last.handler = "create_todo" /\ last.exc = NoExc
    /\ last.req.body.title = TVal(<<" ", "b", " ">>)
    /\ last.todo.title = <<"b">>
    /\ Len(todos) = 2

\* C12: create with an empty or a blank title fails validation (in the
\* service with ValidationError, or before it when the body is refused) and
\* leaves the stored todos and the id counter as they were.
C12_BlankTitleRefused ==
    [][(/\ last = NoResponse
        /\ last'.handler = "create_todo"
        /\ BlankTitle(last'))
       => /\ last'.exc \in {ValidationError, "not_called"}
          /\ last'.exc = "not_called" => last'.status = 422
          /\ Served("create_todo") => last'.exc = ValidationError
          /\ last'.status \in 400..499
          /\ todos' = todos
          /\ next_id' = next_id
          /\ issued' = issued]_vars

\* a title of blanks alone has reached the service and been refused while a
\* todo is stored
C12_Witness ==
    /\ last.handler = "create_todo" /\ last.exc = ValidationError
    /\ last.req.body.title = TVal(<<" ">>)
    /\ Len(todos) >= 1

\* C13: a listing of todos that were created one after another gives them
\* in the reverse of the order they were created in (ids grow with
\* creation, C1), whatever the clock gave each, equal readings too.
C13_ReverseCreationOrder ==
    (last.handler = "get_todos" /\ last.exc = NoExc) =>
        \A i, j \in 1..Len(last.list) :
            i < j => last.list[i].id > last.list[j].id

\* C14: a listing holds each stored todo once and nothing else, by
\* created_at descending and, among todos of equal created_at, by id
\* ascending; the listing of an empty store is the empty sequence, and
\* listing never fails.
C14_Listing ==
    last.handler = "get_todos" =>
        /\ last.exc = NoExc /\ last.status = 200
        /\ Len(last.list) = Len(todos)
        /\ \A i \in 1..Len(todos) :
              Cardinality({j \in 1..Len(last.list) :
                              last.list[j] = todos[i].val}) = 1
        /\ \A i, j \in 1..Len(last.list) :
              i < j =>
                 \/ last.list[i].created_at > last.list[j].created_at
                 \/ /\ last.list[i].created_at = last.list[j].created_at
                    /\ last.list[i].id < last.list[j].id
        /\ todos = <<>> => last.list = <<>>

\* a listing of two todos of one created_at
C14_Witness ==
    /\ last.handler = "get_todos"
    /\ Len(last.list) = 2
    /\ last.list[1].created_at = last.list[2].created_at

\* the ids (positive integers) that create_todo has returned
IssuedIds == {issued[i] : i \in 1..Len(issued)}

\* C15: a delete of a stored id succeeds and removes the todo, and an id
\* that was issued and is stored no more is never stored again, so that
\* get_todo_by_id of it fails with TodoNotFoundError from then on; a delete
\* of an id (a positive integer) that is not stored, deleted before or
\* never issued, fails with TodoNotFoundError and leaves the store as it was.
C15_DeleteThenNotFound ==
    [][/\ (Served("delete_todo") /\ PathId(last') > 0) =>
             IF DictHas(todos, PathId(last'))
             THEN /\ last'.exc = NoExc
                  /\ ~DictHas(todos', PathId(last'))
                  /\ Service_get_todo_by_id(todos', next_id', PathId(last')).exc
                        = TodoNotFoundError
             ELSE /\ last'.exc = TodoNotFoundError
                  /\ todos' = todos
                  /\ next_id' = next_id
       /\ \A id \in IssuedIds : ~DictHas(todos, id) => ~DictHas(todos', id)
       /\ (Served("get_todo") /\ PathId(last') > 0
           /\ ~DictHas(todos, PathId(last')))
          => last'.exc = TodoNotFoundError]_vars

\* the id of a deleted todo has been deleted once more and the delete
\* refused, after a later create
C15_Witness ==
    /\ last.handler = "delete_todo" /\ last.exc = TodoNotFoundError
    /\ PathId(last) \in IssuedIds
    /\ Len(issued) = 2
    /\ Len(todos) = 1

\* the number of stored todos that are completed, or are not
CountWhere(d, completed) ==
    Cardinality({i \in 1..Len(d) : d[i].val.completed = completed})

\* C16: mark_all_complete returns the number of todos that were not
\* completed, leaves every todo completed, with the id, title and
\* created_at it had and at the place it had, adds and removes none, and
\* the statistics taken right after it have pending = 0.
C16_MarkAllComplete ==
    [][Served("mark_all_complete")
       => /\ last'.exc = NoExc
          /\ last'.count = CountWhere(todos, FALSE)
          /\ Len(todos') = Len(todos)
          /\ \A i \in 1..Len(todos) :
                /\ todos'[i].key = todos[i].key
                /\ todos'[i].val.completed = TRUE
                /\ todos'[i].val.id = todos[i].val.id
                /\ todos'[i].val.title = todos[i].val.title
                /\ todos'[i].val.created_at = todos[i].val.created_at
          /\ next_id' = next_id
          /\ Service_get_todo_stats(todos', next_id').stats.pending = 0
          /\ Service_get_todo_stats(todos', next_id').stats.total = Len(todos)]_vars

\* two todos were stored, one of them completed, and one was affected
C16_Witness ==
    /\ last.handler = "mark_all_complete"
    /\ last.count = 1
    /\ Len(todos) = 2

\* C17: delete_completed_todos removes the completed todos and no other,
\* returns how many they were, leaves every todo that is not completed
\* stored as it was and in the order it was, and a listing taken after it
\* has no completed todo.
C17_DeleteCompleted ==
    [][Served("delete_completed_todos")
       => /\ last'.exc = NoExc
          /\ last'.count = CountWhere(todos, TRUE)
          /\ Len(todos') = Len(todos) - last'.count
          /\ \A i \in 1..Len(todos) :
                IF todos[i].val.completed
                THEN ~DictHas(todos', todos[i].key)
                ELSE /\ DictHas(todos', todos[i].key)
                     /\ DictGet(todos', todos[i].key) = todos[i].val
          /\ \A i, j \in 1..Len(todos') :
                i < j => DictIndex(todos, todos'[i].key)
                            < DictIndex(todos, todos'[j].key)
          /\ next_id' = next_id
          /\ LET list == Service_get_all_todos(todos', next_id').list
             IN  /\ Len(list) = Len(todos')
                 /\ \A i \in 1..Len(list) : ~list[i].completed]_vars

\* of two stored todos the completed one was removed and the other is left
C17_Witness ==
    /\ last.handler = "delete_completed_todos"
    /\ last.count = 1
    /\ Len(todos) = 1
    /\ ~todos[1].val.completed

\* C18: delete_all_todos returns the number of todos that were stored and
\* leaves none: a listing taken after it is the empty sequence.
C18_DeleteAll ==
    [][Served("delete_all_todos")
       => /\ last'.exc = NoExc
          /\ last'.count = Len(todos)
          /\ todos' = <<>>
          /\ Service_get_all_todos(todos', next_id').exc = NoExc
          /\ Service_get_all_todos(todos', next_id').list = <<>>]_vars

\* two todos were stored and are gone
C18_Witness ==
    /\ last.handler = "delete_all_todos"
    /\ last.count = 2
    /\ todos = <<>>

\* C19: the statistics that get_todo_stats computes from a listing have
\* pending + completed = total and total = the length of the listing, and
\* when the listing is handed out (the lock still held) they count the
\* stored todos: total all of them, completed and pending those that are
\* and are not completed, whatever the other threads have called.
C19_StatsConsistent ==
    \A t \in Threads :
        At(t, "get_all_todos", "return") =>
            LET stats == StatsOf(local[t].list)
            IN  /\ stats.pending + stats.completed = stats.total
                /\ stats.total = Len(local[t].list)
                /\ stats.total = Len(todos)
                /\ stats.completed = CountWhere(todos, TRUE)
                /\ stats.pending = CountWhere(todos, FALSE)

\* a listing of a completed and a pending todo is handed out while another
\* thread has called a method that changes the store and waits for the lock
C19_Witness ==
    \E t, u \in Threads :
        /\ t # u
        /\ At(t, "get_all_todos", "return")
        /\ StatsOf(local[t].list) = [total |-> 2, completed |-> 1, pending |-> 1]
        /\ pc[u] = "acquire"
        /\ call[u] \in {"mark_all_complete", "delete_completed_todos",
                        "delete_all_todos", "delete_todo"}

\* C20: get_todo_by_id of an id that a create returned, with no update,
\* delete or bulk operation called for that id since, returns the Todo the
\* create returned, equal in id, title, completed and created_at;
\* get_todo_by_id of an id above 0 that no create has returned fails with
\* TodoNotFoundError.
C20_GetAfterCreate ==
    (last.handler = "get_todo" /\ last.exc # "not_called") =>
        /\ \A f \in fresh :
              f.id = PathId(last) =>
                 /\ last.exc = NoExc
                 /\ last.todo.id = f.id
                 /\ last.todo.title = f.title
                 /\ last.todo.completed = f.completed
                 /\ last.todo.created_at = f.created_at
        /\ (PathId(last) > 0 /\ PathId(last) \notin IssuedIds) =>
              /\ last.exc = TodoNotFoundError
              /\ last.status = 404

\* the second of two created todos has been read back after the first was
\* deleted
C20_Witness ==
    /\ last.handler = "get_todo" /\ last.exc = NoExc
    /\ last.todo \in fresh
    /\ Len(issued) = 2
    /\ last.todo.id = issued[2]
    /\ DictKeys(todos) = {issued[2]}

\* C21: get_todo_by_id, update_todo and delete_todo of the service, called
\* with an id of 0 or less, fail with ValidationError, never with
\* TodoNotFoundError, whatever the patch, and leave the store as it was.
C21_NonPositiveId ==
    [][\A h \in {"get_todo", "update_todo", "delete_todo"} :
          (Served(h) /\ PathId(last') <= 0)
          => /\ last'.exc = ValidationError
             /\ last'.status = 400
             /\ todos' = todos
             /\ next_id' = next_id]_vars

\* id 0 has been refused by get_todo_by_id while a todo is stored
C21_Witness ==
    /\ last.handler = "get_todo" /\ last.exc = ValidationError
    /\ PathId(last) = 0
    /\ Len(todos) >= 1

\* C22: a todo that is stored before and after a step has the id and the
\* created_at it had, and they are those it was created with (the id its
\* key, the created_at no later than the clock): no update_todo, whatever
\* its patch, and no mark_all_complete changes either.
C22_IdAndCreatedAtKept ==
    [][/\ \A k \in DictKeys(todos) \cap DictKeys(todos') :
             /\ DictGet(todos', k).id = DictGet(todos, k).id
             /\ DictGet(todos', k).created_at = DictGet(todos, k).created_at
       /\ \A k \in DictKeys(todos') \ DictKeys(todos) :
             /\ DictGet(todos', k).id = k
             /\ DictGet(todos', k).created_at = now']_vars

\* a todo of an earlier reading of the clock has been marked by
\* mark_all_complete beside a todo of the latest reading
C22_Witness ==
    /\ last.handler = "mark_all_complete" /\ last.count = 1
    /\ Len(todos) = 2
    /\ todos[1].val.title = <<"b">>
    /\ todos[1].val.created_at < now
    /\ todos[2].val.created_at = now

\* C23: every stored todo has a title that is not empty, not blank, and is
\* its own stripped form, after any creates and updates through the
\* service, those that fail too.
C23_TitlesStripped ==
    \A i \in 1..Len(todos) :
        /\ todos[i].val.title # <<>>
        /\ strip(todos[i].val.title) # <<>>
        /\ strip(todos[i].val.title) = todos[i].val.title

\* an update with blanks around its title has stored the title stripped
C23_Witness ==
    /\ last.handler = "update_todo" /\ last.exc = NoExc
    /\ last.req.body.title = TVal(<<" ", "b", " ">>)
    /\ DictGet(todos, PathId(last)).title = <<"b">>

\* the lock is held by the one thread inside a with block, and by none
\* when no thread is inside one
LockDiscipline ==
    /\ \A t \in Threads : lock = t <=> InCritical(t)
    /\ lock # NoThread => lock \in Threads

\* C24: the store never deadlocks.  The lock is held by one operation at
\* most, the one inside its with block; an operation waiting to enter does
\* not hold it and an operation that has left does not either, whether it
\* left by return or by an exception; and every operation that was called
\* completes, under fair scheduling.
C24_NoDeadlock ==
    /\ [](LockDiscipline)
    /\ \A t \in Threads : (pc[t] = "acquire") ~> (pc[t] = "idle" /\ lock # t)
    /\ \A t \in Threads : (pc[t] = "raise") ~> (lock = NoThread)

\* an update_todo is leaving its with block by an exception while another
\* thread waits for the lock
C24_Witness ==
    \E t, u \in Threads :
        /\ t # u
        /\ At(t, "update_todo", "raise")
        /\ lock = t
        /\ pc[u] = "acquire"

\* C25: in every state of the store, between the lines of its methods too,
\* each key of _todos is the id of the todo stored under it and is no key
\* twice, every key is at least 1 and below _next_id, and _next_id never
\* goes down.
C25_KeysAndCounter ==
    /\ [](\A i \in 1..Len(todos) :
             /\ todos[i].key = todos[i].val.id
             /\ todos[i].key >= 1
             /\ todos[i].key < next_id
             /\ \A j \in 1..Len(todos) : todos[i].key = todos[j].key => i = j)
    /\ [][next_id' >= next_id]_vars

\* a second create has raised the counter and has not stored its todo yet
C25_Witness ==
    \E t \in Threads :
        /\ At(t, "create_todo", "L85")
        /\ DictKeys(todos) = {1}
        /\ next_id = 3

=============================================================================
